---------------------------- MODULE Spec2Model ----------------------------
(***************************************************************************)
(* A model of ngsPETSc/utils/firedrake.py: the construction of a           *)
(* FiredrakeMesh (flag handling), createFromTopology (the inverse scatter  *)
(* map), refineMarkedElements (index reconciliation, flagging on rank 0,   *)
(* collective steps) and curveField (point matching by rounded             *)
(* coordinates).                                                           *)
(*                                                                         *)
(* Python indices start at 0; the sequences of this module start at 1, so  *)
(* element i of the source is element i+1 here.  MPI ranks keep their      *)
(* values 0..size-1.  Coordinates are integers in units of 1e-10, so that  *)
(* round(x, 8) is rounding to the nearest multiple of 100.                 *)
(***************************************************************************)
EXTENDS Integers, Sequences, FiniteSets, TLC

\* ------------------------------------------------------------------ bounds
NumEls == 2
MaxMark == 1
MaxWorkers == 2
MaxOrder == 2

VARIABLES
  \* FiredrakeMesh.__init__
  mesh, netgen_flags, cpc, warningsEmitted, split2TetsCalls, meshMapBuilds,
  transformsApplied, ctorRaised,
  \* shared by refineMarkedElements and curveField
  size, dim, cell_numbering,
  \* createFromTopology and refineMarkedElements, one process per rank
  rpc, sfBCInv, marked, sfRoots, marked0, getIdx, elRefine, refineBefore,
  refineInput, flagWrites, refineCalls, exchanges, returned, refRaised,
  \* curveField, the process of one rank
  rank, kpc, orders, callNo, geomCurved, dofLayout, spacing, eps, curvedOrder,
  elCurved, physPts, curvedPhysPts, coords, pLists, kI, curveCalls, mapCalls,
  results, curRaised

ctorVars == <<mesh, netgen_flags, cpc, warningsEmitted, split2TetsCalls,
              meshMapBuilds, transformsApplied, ctorRaised>>
sharedVars == <<size, dim, cell_numbering>>
refVars == <<rpc, sfBCInv, marked, sfRoots, marked0, getIdx, elRefine,
             refineBefore, refineInput, flagWrites, refineCalls, exchanges, returned,
             refRaised>>
curVars == <<rank, kpc, orders, callNo, geomCurved, dofLayout, spacing, eps,
             curvedOrder, elCurved, physPts, curvedPhysPts, coords, pLists, kI,
             curveCalls, mapCalls, results, curRaised>>
vars == <<ctorVars, sharedVars, refVars, curVars>>

\* ----------------------------------------------------------------- helpers
Range(s) == {s[k] : k \in DOMAIN s}

Perms(n) == {f \in [1..n -> 1..n] : \A a, b \in 1..n : f[a] = f[b] => a = b}

RECURSIVE CountIf(_, _)
\* the number of positions of s whose value is in S
CountIf(s, S) ==
  IF s = <<>> THEN 0
  ELSE (IF s[1] \in S THEN 1 ELSE 0) + CountIf(Tail(s), S)

\* ------------------------------------------------- FiredrakeMesh.__init__
FlagKeys == {"purify_to_tets", "quad", "transform"}

\* the mesh objects a caller can hand to the constructor
MeshKinds == {"ngs.comp.Mesh", "ngm.Mesh", "PETSc.DMPlex", "other"}

\* the values a flag can be given: booleans for purify_to_tets and quad, a
\* DMPlexTransform handle or None for transform; "absent" for a key that the
\* mapping does not hold
FlagChoices(k) ==
  IF k = "transform" THEN {"absent", "None", "handle"}
  ELSE {"absent", "True", "False"}

\* the mapping that holds exactly the keys not chosen absent
MakeFlags(c) ==
  [k \in {x \in FlagKeys : c[x] # "absent"} |-> c[k]]

\* isinstance(mesh, (ngs.comp.Mesh, ngm.Mesh))
IsSerialMesh(m) == m \in {"ngs.comp.Mesh", "ngm.Mesh"}

\* a lookup with netgen_flags.get(k) that treats a falsy value as a missing key
KeyErrorOnFalsy(flags, k) ==
  k \notin DOMAIN flags \/ flags[k] \in {"False", "None"}

\* netgen_flags[k] raises KeyError
KeyErrorOn(flags, k) == k \notin DOMAIN flags

\* Python truth value of a flag value
Truthy(v) == v \in {"True", "handle"}

\* the test of line 154: netgen_flags["transform"] is not None
IsNotNone(v) == v # "None"

InitCtorVars ==
  /\ mesh \in MeshKinds
  /\ \E c \in {f \in [FlagKeys -> {"absent", "True", "False", "None", "handle"}] :
                 \A k \in FlagKeys : f[k] \in FlagChoices(k)} :
       netgen_flags = MakeFlags(c)
  /\ cpc = "purify"
  /\ warningsEmitted = <<>>
  /\ split2TetsCalls = 0
  /\ meshMapBuilds = <<>>
  /\ transformsApplied = <<>>
  /\ ctorRaised = "none"

IdleCtorVars ==
  /\ mesh = "ngm.Mesh"
  /\ netgen_flags = MakeFlags([k \in FlagKeys |-> "absent"])
  /\ cpc = "idle"
  /\ warningsEmitted = <<>>
  /\ split2TetsCalls = 0
  /\ meshMapBuilds = <<>>
  /\ transformsApplied = <<>>
  /\ ctorRaised = "none"

\* lines 134-142: the type test, the purify_to_tets block and the first bridge
CtorPurify ==
  /\ cpc = "purify"
  /\ IF IsSerialMesh(mesh)
     THEN /\ IF KeyErrorOn(netgen_flags, "purify_to_tets")
             THEN /\ warningsEmitted' = Append(warningsEmitted, "purify_to_tets")
                  /\ split2TetsCalls' = split2TetsCalls
             ELSE /\ warningsEmitted' = warningsEmitted
                  /\ split2TetsCalls' =
                       IF Truthy(netgen_flags["purify_to_tets"])
                       THEN split2TetsCalls + 1 ELSE split2TetsCalls
          /\ meshMapBuilds' = Append(meshMapBuilds,
               IF split2TetsCalls' > 0 THEN "split mesh" ELSE "mesh")
          /\ cpc' = "quad"
          /\ ctorRaised' = ctorRaised
     ELSE /\ ctorRaised' = "ValueError"
          /\ cpc' = "raised"
          /\ UNCHANGED <<warningsEmitted, split2TetsCalls, meshMapBuilds>>
  /\ UNCHANGED <<mesh, netgen_flags, transformsApplied>>
  /\ UNCHANGED <<sharedVars, refVars, curVars>>

\* lines 143-152: the quad block
CtorQuad ==
  /\ cpc = "quad"
  /\ IF KeyErrorOn(netgen_flags, "quad")
     THEN /\ warningsEmitted' = Append(warningsEmitted, "quad")
          /\ UNCHANGED <<transformsApplied, meshMapBuilds>>
     ELSE /\ warningsEmitted' = warningsEmitted
          /\ IF Truthy(netgen_flags["quad"])
             THEN /\ transformsApplied' = Append(transformsApplied, "REFINETOBOX")
                  /\ meshMapBuilds' = Append(meshMapBuilds, "newplex")
             ELSE UNCHANGED <<transformsApplied, meshMapBuilds>>
  /\ cpc' = "transform"
  /\ UNCHANGED <<mesh, netgen_flags, split2TetsCalls, ctorRaised>>
  /\ UNCHANGED <<sharedVars, refVars, curVars>>

\* lines 153-161: the transform block
CtorTransform ==
  /\ cpc = "transform"
  /\ IF KeyErrorOn(netgen_flags, "transform")
     THEN /\ warningsEmitted' = Append(warningsEmitted, "transform")
          /\ UNCHANGED <<transformsApplied, meshMapBuilds>>
     ELSE /\ warningsEmitted' = warningsEmitted
          /\ IF IsNotNone(netgen_flags["transform"])
             THEN /\ transformsApplied' = Append(transformsApplied, "transform")
                  /\ meshMapBuilds' = Append(meshMapBuilds, "newplex")
             ELSE UNCHANGED <<transformsApplied, meshMapBuilds>>
  /\ cpc' = "done"
  /\ UNCHANGED <<mesh, netgen_flags, split2TetsCalls, ctorRaised>>
  /\ UNCHANGED <<sharedVars, refVars, curVars>>

NextCtor == CtorPurify \/ CtorQuad \/ CtorTransform


\* ------------------------------ createFromTopology, refineMarkedElements
Ranks == 0..(size - 1)
Dims == 1..4
MarkVals == 0..MaxMark

RECURSIVE Ascending(_)
\* the elements of a finite set of integers as an increasing sequence
Ascending(S) ==
  IF S = {} THEN <<>>
  ELSE LET m == CHOOSE x \in S : \A y \in S : x <= y
       IN <<m>> \o Ascending(S \ {m})

\* the local cells of each rank, named by their serial element: the partition
\* that the distribution of the plex produced
LocalCells(owner, n) ==
  [w \in 0..(n - 1) |-> Ascending({e \in 1..NumEls : owner[e] = w})]

\* the elements of the netgen mesh that a rank holds: the serial mesh on rank
\* 0, an empty mesh elsewhere
HandleEls(w) == IF w = 0 THEN NumEls ELSE 0

\* a creation of the inverse map on every communicator, also of size 1
HasInverseSFOffByOne(n) == n >= 1

\* line 182: self.comm.Get_size() > 1
HasInverseSF(n) == n > 1

\* lines 182-185: the attribute sfBCInv that createFromTopology stores
InverseSFFor(n) == IF HasInverseSF(n) THEN "sf" ELSE "None"

\* line 40: self.sfBCInv is not None
SFPresent(sf) == sf # "None"

\* lines 39-41: the index function that the flagging loop uses
GetIdxFor(sf) == IF SFPresent(sf) THEN "identity" ELSE "getOffset"

\* getIdx(i): lambda x: x, or self._cell_numbering.getOffset
ApplyIdx(kind, numbering, i) == IF kind = "identity" THEN i ELSE numbering[i]

\* lines 42-44: topology_dm.distributeField(sfBCInv, _cell_numbering, marked)
\* sends every local value back to the place of its serial element on the
\* root rank; the other ranks receive no entry
DistributeField(w, roots, local) ==
  IF w = 0
  THEN [e \in 1..NumEls |->
          LET v == CHOOSE x \in DOMAIN roots : e \in Range(roots[x])
              k == CHOOSE y \in DOMAIN roots[v] : roots[v][y] = e
          IN local[v][k]]
  ELSE <<>>

\* line 48: the truth value of a marking entry
MarkTruth(v) == v # 0

\* a loop without the else branch of lines 50-51
FlagLoopSetsOnly(flags, mark, kind, numbering) ==
  [i \in DOMAIN flags |->
     IF MarkTruth(mark[ApplyIdx(kind, numbering, i)]) THEN TRUE ELSE flags[i]]

\* lines 47-51: the refine flag of every element after the loop
FlagLoop(flags, mark, kind, numbering) ==
  [i \in DOMAIN flags |->
     IF MarkTruth(mark[ApplyIdx(kind, numbering, i)]) THEN TRUE ELSE FALSE]

\* a rank test that every rank passes
IsRootAnyRank(w) == TRUE

\* line 45: self.comm.Get_rank() == 0
IsRoot(w) == w = 0

\* line 36: self.geometric_dimension() == 2
RefineSupports(d) == d = 2

InitShared(n, d, numbering) ==
  /\ size = n
  /\ dim = d
  /\ cell_numbering = numbering

InitRefVars ==
  \E n \in 1..MaxWorkers, owner \in [1..NumEls -> 0..(MaxWorkers - 1)],
     markSerial \in [1..NumEls -> MarkVals] :
    /\ \A e \in 1..NumEls : owner[e] < n
    /\ \E d \in Dims, numbering \in Perms(Len(LocalCells(owner, n)[0])) :
         InitShared(n, d, numbering)
    /\ sfRoots = LocalCells(owner, n)
    /\ marked = [w \in 0..(n - 1) |->
                   [k \in 1..Len(LocalCells(owner, n)[w]) |->
                      markSerial[LocalCells(owner, n)[w][k]]]]
    /\ rpc = [w \in 0..(n - 1) |-> "create"]
    /\ sfBCInv = [w \in 0..(n - 1) |-> "unset"]
    /\ marked0 = [w \in 0..(n - 1) |-> <<>>]
    /\ getIdx = [w \in 0..(n - 1) |-> "unset"]
    /\ elRefine \in [1..NumEls -> BOOLEAN]
    /\ refineBefore = elRefine
    /\ refineInput = <<>>
    /\ flagWrites = [w \in 0..(n - 1) |-> 0]
    /\ refineCalls = [w \in 0..(n - 1) |-> 0]
    /\ exchanges = [w \in 0..(n - 1) |-> 0]
    /\ returned = [w \in 0..(n - 1) |-> "none"]
    /\ refRaised = [w \in 0..(n - 1) |-> "none"]

IdleRefVars ==
  /\ sfRoots = [w \in Ranks |-> <<>>]
  /\ marked = [w \in Ranks |-> <<>>]
  /\ rpc = [w \in Ranks |-> "idle"]
  /\ sfBCInv = [w \in Ranks |-> "unset"]
  /\ marked0 = [w \in Ranks |-> <<>>]
  /\ getIdx = [w \in Ranks |-> "unset"]
  /\ elRefine = [i \in 1..NumEls |-> FALSE]
  /\ refineBefore = elRefine
  /\ refineInput = <<>>
  /\ flagWrites = [w \in Ranks |-> 0]
  /\ refineCalls = [w \in Ranks |-> 0]
  /\ exchanges = [w \in Ranks |-> 0]
  /\ returned = [w \in Ranks |-> "none"]
  /\ refRaised = [w \in Ranks |-> "none"]

\* lines 180-186: the attributes attached to the mesh of rank w
CreateFromTopology(w) ==
  /\ rpc[w] = "create"
  /\ sfBCInv' = [sfBCInv EXCEPT ![w] = InverseSFFor(size)]
  /\ rpc' = [rpc EXCEPT ![w] = "call"]
  /\ UNCHANGED <<marked, sfRoots, marked0, getIdx, elRefine, refineBefore, refineInput,
                 flagWrites, refineCalls, exchanges, returned, refRaised>>
  /\ UNCHANGED <<ctorVars, sharedVars, curVars>>

\* lines 36-44 and 55-56: the dimension test, the raw array and the index
\* function; with an inverse scatter map the rank enters the exchange
RefineEnter(w) ==
  /\ rpc[w] = "call"
  /\ IF RefineSupports(dim)
     THEN /\ marked0' = [marked0 EXCEPT ![w] = marked[w]]
          /\ getIdx' = [getIdx EXCEPT ![w] = GetIdxFor(sfBCInv[w])]
          /\ IF SFPresent(sfBCInv[w])
             THEN /\ exchanges' = [exchanges EXCEPT ![w] = @ + 1]
                  /\ rpc' = [rpc EXCEPT ![w] = "distributeField"]
             ELSE /\ exchanges' = exchanges
                  /\ rpc' = [rpc EXCEPT ![w] = "rank"]
          /\ refRaised' = refRaised
     ELSE /\ refRaised' = [refRaised EXCEPT ![w] = "NotImplementedError"]
          /\ rpc' = [rpc EXCEPT ![w] = "raised"]
          /\ UNCHANGED <<marked0, getIdx, exchanges>>
  /\ UNCHANGED <<sfBCInv, marked, sfRoots, elRefine, refineBefore, refineInput, flagWrites,
                 refineCalls, returned>>
  /\ UNCHANGED <<ctorVars, sharedVars, curVars>>

\* lines 42-44: the exchange is blocking; it completes on a rank once every
\* rank has entered it
RefineExchange(w) ==
  /\ rpc[w] = "distributeField"
  /\ \A v \in Ranks : exchanges[v] >= exchanges[w]
  /\ marked0' = [marked0 EXCEPT ![w] = DistributeField(w, sfRoots, marked)]
  /\ rpc' = [rpc EXCEPT ![w] = "rank"]
  /\ UNCHANGED <<sfBCInv, marked, sfRoots, getIdx, elRefine, refineBefore, refineInput,
                 flagWrites, refineCalls, exchanges, returned, refRaised>>
  /\ UNCHANGED <<ctorVars, sharedVars, curVars>>

\* lines 47-48: every index mark[getIdx(i)] of the loop is inside the array
IndicesInRange(w) ==
  \A i \in 1..HandleEls(w) :
    ApplyIdx(getIdx[w], cell_numbering, i) \in DOMAIN marked0[w]

\* lines 45-54: on rank 0 the flagging loop over the elements of netgen_mesh
\* and Refine(adaptive=True), then the construction of a mesh from
\* netgen_mesh; on the other ranks the construction of a mesh from an empty
\* netgen mesh
RefineRank(w) ==
  /\ rpc[w] = "rank"
  /\ IF IsRoot(w)
     THEN IF IndicesInRange(w)
          THEN /\ elRefine' =
                    IF HandleEls(w) = 0 THEN elRefine
                    ELSE FlagLoop(elRefine, marked0[w], getIdx[w], cell_numbering)
               /\ flagWrites' = [flagWrites EXCEPT ![w] = @ + HandleEls(w)]
               /\ refineInput' = elRefine'
               /\ refineCalls' = [refineCalls EXCEPT ![w] = @ + 1]
               /\ rpc' = [rpc EXCEPT ![w] = "Mesh(netgen_mesh)"]
               /\ refRaised' = refRaised
          ELSE /\ refRaised' = [refRaised EXCEPT ![w] = "IndexError"]
               /\ rpc' = [rpc EXCEPT ![w] = "raised"]
               /\ UNCHANGED <<elRefine, flagWrites, refineInput, refineCalls>>
     ELSE /\ rpc' = [rpc EXCEPT ![w] = "Mesh(placeholder)"]
          /\ UNCHANGED <<elRefine, flagWrites, refineInput, refineCalls,
                         refRaised>>
  /\ UNCHANGED <<sfBCInv, marked, sfRoots, marked0, getIdx, exchanges,
                 refineBefore, returned>>
  /\ UNCHANGED <<ctorVars, sharedVars, curVars>>

\* the ranks that have entered the construction of the new mesh
InMeshConstruction(w) ==
  rpc[w] \in {"Mesh(netgen_mesh)", "Mesh(placeholder)", "done"}

\* lines 53-54: fd.Mesh(...) is collective over the communicator; the call
\* returns on a rank once every rank has entered it
RefineReturn(w) ==
  /\ rpc[w] \in {"Mesh(netgen_mesh)", "Mesh(placeholder)"}
  /\ \A v \in Ranks : InMeshConstruction(v)
  /\ returned' = [returned EXCEPT ![w] =
                    IF rpc[w] = "Mesh(netgen_mesh)" THEN "refined"
                    ELSE "placeholder"]
  /\ rpc' = [rpc EXCEPT ![w] = "done"]
  /\ UNCHANGED <<sfBCInv, marked, sfRoots, marked0, getIdx, elRefine,
                 refineBefore, refineInput, flagWrites, refineCalls, exchanges, refRaised>>
  /\ UNCHANGED <<ctorVars, sharedVars, curVars>>

NextRefine ==
  \/ \E w \in Ranks : CreateFromTopology(w)
  \/ \E w \in Ranks : RefineEnter(w)
  \/ \E w \in Ranks : RefineExchange(w)
  \/ \E w \in Ranks : RefineRank(w)
  \/ \E w \in Ranks : RefineReturn(w)

\* ------------------------------------------------------------ curveField
\* the calls of curve_field that a client makes on one mesh: a first call and
\* a second one
CallNumbers == {1, 2}

\* the straight-sided sample points of an element are either well separated
\* or closer to each other than the rounding resolution
Spacings == {4, 100}

\* the difference between a coordinate that the interpolation computes and
\* the one that CalcElementMapping computes for the same point
Noise == {0, 1}

DofLayouts == {"same", "reversed"}

RECURSIVE Binomial(_, _)
Binomial(n, k) ==
  IF k < 0 \/ k > n THEN 0
  ELSE IF k = 0 THEN 1
  ELSE Binomial(n - 1, k - 1) + Binomial(n - 1, k)

RECURSIVE SumUpTo(_, _, _)
\* lines 71-75: the number of points that make_points(i, j, order) yields over
\* the sub-entities of dimension i = e, e+1, ... below d of a d-simplex
SumUpTo(e, d, k) ==
  IF e >= d THEN 0
  ELSE Binomial(d + 1, e + 1) * Binomial(k - 1, e) + SumUpTo(e + 1, d, k)

\* refPts.shape[0]
NumRefPts(d, k) == SumUpTo(0, d, k)

\* the nodes of a cell of the space VectorFunctionSpace(mesh, "DG", order)
NumCellDofs(d, k) == Binomial(k + d, d)

\* round(x, 8)
Round8(x) == 100 * ((x + 50) \div 100)

\* tuple(map(lambda x: round(x,8), pts))
RoundPt(pt) == [c \in DOMAIN pt |-> Round8(pt[c])]

\* the straight-sided physical point of reference point r of element i
StraightPt(i, r, d) == [c \in 1..d |-> 10000 * i * c + spacing * r]

\* the displacement of a sample point by a curving of order m: the vertices
\* (the first d+1 reference points) stay, the other points move
Displacement(r, d, m) ==
  [c \in 1..d |-> IF r <= d + 1 THEN 0 ELSE 1000 * r + 7 * m]

\* netgen_mesh.CalcElementMapping for one element and one reference point, on
\* a mesh whose last Curve call had order m (0: never curved)
ElementMapping(i, r, d, m) ==
  IF m >= 2 /\ i \in geomCurved
  THEN LET straight == StraightPt(i, r, d)
           moved == Displacement(r, d, m)
       IN [c \in 1..d |-> straight[c] + moved[c]]
  ELSE StraightPt(i, r, d)

\* lines 78-80 and 83-85: CalcElementMapping(refPts, ...) over all elements
CalcElementMapping(w, d, k, m) ==
  LET n == NumRefPts(d, k)
  IN [i \in 1..HandleEls(w) |-> [r \in 1..n |-> ElementMapping(i, r, d, m)]]

\* el.curved after netgen_mesh.Curve(order)
CurvedAfter(i, k) == k >= 2 /\ i \in geomCurved

\* the reference point whose location node j of a cell holds
LayoutPoint(j, n) == IF dofLayout = "same" THEN j ELSE n + 1 - j

\* the serial element of a local cell
ElementOfCell(c) == CHOOSE i \in DOMAIN cell_numbering : cell_numbering[i] = c

\* lines 65-67: the interpolation of the straight-sided coordinates into the
\* DG space of the requested order, cell by cell and node by node; the nodes
\* on the boundary of the cell come first
Interpolate(d, k) ==
  LET n == NumRefPts(d, k)
      dofs == NumCellDofs(d, k)
  IN [c \in 1..NumEls |->
        LET i == ElementOfCell(c)
        IN [j \in 1..dofs |->
              IF j <= n
              THEN LET straight == StraightPt(i, LayoutPoint(j, n), d)
                   IN [x \in 1..d |-> straight[x] + eps]
              ELSE [x \in 1..d |-> 10000 * i * x + 5000 + j]]]

\* line 91: dofMap = {k: v for v, k in enumerate(pts)}, then dofMap[key]: the
\* last position of the key, 0 for a KeyError
DofMapGet(pts, key) ==
  IF \E v \in DOMAIN pts : pts[v] = key
  THEN CHOOSE v \in DOMAIN pts :
         pts[v] = key /\ \A u \in DOMAIN pts : pts[u] = key => u <= v
  ELSE 0

\* lines 89-93: the index list p of element i
PointLookup(phys, cellCoords) ==
  LET pts == [r \in DOMAIN phys |-> RoundPt(phys[r])]
  IN [j \in DOMAIN phys |-> DofMapGet(pts, RoundPt(cellCoords[j]))]

\* the curved points left in the order of the reference points
PermuteSkipped(curved, p) == curved

\* line 94: curvedPhysPts[i] = curvedPhysPts[i][p]
Permute(curved, p) == [j \in DOMAIN p |-> curved[p[j]]]

\* lines 95-97 and 118-121: the writes into the nodes of one cell
WriteCell(cellCoords, curved) ==
  [j \in DOMAIN cellCoords |->
     IF j \in DOMAIN curved THEN curved[j] ELSE cellCoords[j]]

\* lines 93 and 116: cellMap.values[getIdx(i)], the cell whose nodes are read
LookupCell(i) == ApplyIdx("getOffset", cell_numbering, i)

\* the cell with the number of the element, without the offset lookup
WrittenCellNoOffset(i) == i

\* lines 95 and 118: cellMap.values[getIdx(i)], the cell whose nodes are written
WrittenCell(i) == ApplyIdx("getOffset", cell_numbering, i)

\* lines 76 and 99: the dimensions that have a branch
CurveSupports(d) == d \in {2, 3}

\* curveField exchanges nothing between the ranks, so one call sequence is
\* followed on one rank: the root, or the last rank of the communicator
InitCurVars ==
  \E d \in Dims, numbering \in Perms(NumEls) :
    /\ InitShared(MaxWorkers, d, numbering)
    /\ rank \in {0, MaxWorkers - 1}
    /\ kpc = "ready"
    /\ orders \in [CallNumbers -> 1..MaxOrder]
    /\ callNo = 0
    /\ geomCurved \in SUBSET (1..NumEls)
    /\ dofLayout \in DofLayouts
    /\ spacing \in Spacings
    /\ eps \in Noise
    /\ curvedOrder = 0
    /\ elCurved = [i \in 1..NumEls |-> FALSE]
    /\ physPts = <<>>
    /\ curvedPhysPts = <<>>
    /\ coords = <<>>
    /\ pLists = <<>>
    /\ kI = 0
    /\ curveCalls = 0
    /\ mapCalls = 0
    /\ results = <<>>
    /\ curRaised = "none"

IdleCurVars ==
  /\ rank = 0
  /\ kpc = "idle"
  /\ orders = [c \in CallNumbers |-> 1]
  /\ callNo = 0
  /\ geomCurved = {}
  /\ dofLayout = "same"
  /\ spacing = 100
  /\ eps = 0
  /\ curvedOrder = 0
  /\ elCurved = [i \in 1..NumEls |-> FALSE]
  /\ physPts = <<>>
  /\ curvedPhysPts = <<>>
  /\ coords = <<>>
  /\ pLists = <<>>
  /\ kI = 0
  /\ curveCalls = 0
  /\ mapCalls = 0
  /\ results = <<>>
  /\ curRaised = "none"

\* lines 65-86 and 99-109: the interpolation, the reference points and, in
\* dimension 2 or 3, the two mappings around the call of Curve
CurveBegin ==
  /\ kpc = "ready"
  /\ callNo + 1 \in CallNumbers
  /\ callNo' = callNo + 1
  /\ coords' = Interpolate(dim, orders[callNo + 1])
  /\ pLists' = <<>>
  /\ IF CurveSupports(dim)
     THEN /\ physPts' = CalcElementMapping(rank, dim, orders[callNo + 1], curvedOrder)
          /\ curvedOrder' = orders[callNo + 1]
          /\ elCurved' = [i \in 1..NumEls |-> CurvedAfter(i, orders[callNo + 1])]
          /\ curvedPhysPts' =
               CalcElementMapping(rank, dim, orders[callNo + 1], curvedOrder')
          /\ curveCalls' = curveCalls + 1
          /\ mapCalls' = mapCalls + 2
          /\ kI' = 1
          /\ kpc' = "loop"
     ELSE /\ kpc' = "return"
          /\ UNCHANGED <<physPts, curvedOrder, elCurved, curvedPhysPts,
                         curveCalls, mapCalls, kI>>
  /\ UNCHANGED <<rank, orders, geomCurved, dofLayout, spacing, eps, results,
                 curRaised>>
  /\ UNCHANGED <<ctorVars, sharedVars, refVars>>

\* lines 87-97 and 110-121: one iteration of the loop over the elements
CurveElement ==
  /\ kpc = "loop"
  /\ kI <= HandleEls(rank)
  /\ IF elCurved[kI]
     THEN LET p == PointLookup(physPts[kI], coords[LookupCell(kI)])
          IN IF \E j \in DOMAIN p : p[j] = 0
             THEN /\ curRaised' = "KeyError"
                  /\ kpc' = "raised"
                  /\ UNCHANGED <<curvedPhysPts, coords, pLists, kI>>
             ELSE /\ curvedPhysPts' =
                       [curvedPhysPts EXCEPT ![kI] = Permute(@, p)]
                  /\ coords' =
                       [coords EXCEPT ![WrittenCell(kI)] =
                                        WriteCell(@, curvedPhysPts'[kI])]
                  /\ pLists' = pLists @@ (kI :> p)
                  /\ kI' = kI + 1
                  /\ UNCHANGED <<curRaised, kpc>>
     ELSE /\ kI' = kI + 1
          /\ UNCHANGED <<curvedPhysPts, coords, pLists, curRaised, kpc>>
  /\ UNCHANGED <<rank, orders, callNo, geomCurved, dofLayout, spacing, eps,
                 curvedOrder, elCurved, physPts, curveCalls, mapCalls, results>>
  /\ UNCHANGED <<ctorVars, sharedVars, refVars>>

\* line 122: return newFunctionCoordinates
CurveReturn ==
  /\ \/ kpc = "return"
     \/ kpc = "loop" /\ kI > HandleEls(rank)
  /\ results' = Append(results, coords)
  /\ kpc' = "ready"
  /\ UNCHANGED <<rank, orders, callNo, geomCurved, dofLayout, spacing, eps,
                 curvedOrder, elCurved, physPts, curvedPhysPts, coords, pLists,
                 kI, curveCalls, mapCalls, curRaised>>
  /\ UNCHANGED <<ctorVars, sharedVars, refVars>>

NextCurve == CurveBegin \/ CurveElement \/ CurveReturn

\* --------------------------------------------------------- specifications
InitCtor ==
  /\ InitCtorVars
  /\ InitShared(1, 2, <<>>)
  /\ IdleRefVars
  /\ IdleCurVars

InitRefine == IdleCtorVars /\ InitRefVars /\ IdleCurVars

InitCurve == IdleCtorVars /\ InitCurVars /\ IdleRefVars

Init == InitCtor \/ InitRefine \/ InitCurve

Next == NextCtor \/ NextRefine \/ NextCurve

Spec == Init /\ [][Next]_vars

SpecCtor == InitCtor /\ [][NextCtor]_vars

SpecRefine == InitRefine /\ [][NextRefine]_vars

SpecCurve == InitCurve /\ [][NextCurve]_vars

\* ------------------------------------------------------------------ claims

\* the ranks whose call has passed the index reconciliation of lines 37-44
Reconciled(w) ==
  rpc[w] \in {"rank", "Mesh(netgen_mesh)", "Mesh(placeholder)", "done"}

\* C1: in refineMarkedElements on a 2D mesh, when rank 0 invokes Refine every
\* serial element i has refine = bool(mark_resolved[idx(i)]), whatever its
\* flag was before; with idx a bijection the number of flagged elements is the
\* number of true entries of the marking array.
C1_FlagsEqualMarks ==
  refineCalls[0] >= 1 =>
    /\ \A i \in 1..NumEls :
         refineInput[i] =
           (marked0[0][IF sfBCInv[0] = "None" THEN cell_numbering[i] ELSE i] # 0)
    /\ CountIf(refineInput, {TRUE}) = Len(marked0[0]) - CountIf(marked0[0], {0})

\* a single-rank run with a numbering that is not the identity, in which one
\* entry is true and stale flags of both values were overwritten
C1_Witness ==
  /\ size = 1
  /\ refineCalls[0] = 1
  /\ cell_numbering # [i \in 1..NumEls |-> i]
  /\ CountIf(refineInput, {TRUE}) = 1
  /\ \E i \in 1..NumEls : refineBefore[i] /\ ~refineInput[i]
  /\ \E i \in 1..NumEls : ~refineBefore[i] /\ refineInput[i]

\* C2: without an inverse scatter map no exchange is performed and element i
\* is resolved through getOffset on the raw marking array; with one, exactly
\* one distributeField exchange is performed and element i is resolved to
\* entry i of the redistributed array; the map is present exactly when the
\* communicator has more than one rank.
C2_IndexReconciliation ==
  /\ \A w \in Ranks :
       /\ sfBCInv[w] # "unset" => (sfBCInv[w] # "None" <=> size > 1)
       /\ Reconciled(w) =>
            IF sfBCInv[w] = "None"
            THEN /\ exchanges[w] = 0
                 /\ getIdx[w] = "getOffset"
                 /\ marked0[w] = marked[w]
            ELSE /\ exchanges[w] = 1
                 /\ getIdx[w] = "identity"
  /\ refineCalls[0] >= 1 =>
       \A i \in 1..NumEls :
         IF sfBCInv[0] = "None"
         THEN refineInput[i] = (marked[0][cell_numbering[i]] # 0)
         ELSE \A v \in Ranks : \A k \in DOMAIN sfRoots[v] :
                sfRoots[v][k] = i => refineInput[i] = (marked[v][k] # 0)

\* a run on two ranks in which an element that another rank owns was flagged
\* from the redistributed array
C2_Witness ==
  /\ size = 2
  /\ refineCalls[0] = 1
  /\ exchanges[0] = 1
  /\ \E k \in DOMAIN sfRoots[1] : refineInput[sfRoots[1][k]]
  /\ \E i \in 1..NumEls : ~refineInput[i]

\* C6: when every rank calls refineMarkedElements on a 2D mesh, every call
\* returns: no state short of the return of all ranks is without a next step,
\* rank 0 returns the mesh of the refined netgen mesh after one flagging loop
\* and one Refine, every other rank returns the mesh of an empty netgen mesh
\* without a flag write or a Refine, and all ranks went through the same
\* number of exchanges.
C6_LockStepReturns ==
  dim = 2 =>
    /\ (\A w \in Ranks : rpc[w] = "done") \/ ENABLED NextRefine
    /\ \A w \in Ranks :
         /\ refRaised[w] = "none"
         /\ rpc[w] = "done" =>
              returned[w] = IF w = 0 THEN "refined" ELSE "placeholder"
         /\ w # 0 => flagWrites[w] = 0 /\ refineCalls[w] = 0
         /\ exchanges[w] <= 1
    /\ returned[0] = "refined" => refineCalls[0] = 1 /\ flagWrites[0] = NumEls
    /\ (\A w \in Ranks : rpc[w] = "done") =>
         \A w \in Ranks : exchanges[w] = exchanges[0]

\* all ranks of a run on more than one rank have returned after the exchange
C6_Witness ==
  /\ size > 1
  /\ \A w \in Ranks : rpc[w] = "done" /\ exchanges[w] = 1
  /\ returned[0] = "refined"
  /\ \A w \in Ranks : w # 0 => returned[w] = "placeholder"

\* C5: on a mesh of dimension 1 or 4, refineMarkedElements and curveField
\* raise the unsupported-dimension error and change nothing; for
\* refineMarkedElements the same holds in every dimension other than 2.
C5_DimensionGuard ==
  /\ \A w \in Ranks :
       (dim # 2 /\ rpc[w] \notin {"idle", "create", "call"}) =>
         /\ refRaised[w] = "NotImplementedError"
         /\ flagWrites[w] = 0 /\ refineCalls[w] = 0 /\ exchanges[w] = 0
         /\ returned[w] = "none"
  /\ (dim \in {1, 4} /\ callNo >= 1) =>
       /\ curRaised = "NotImplementedError"
       /\ curveCalls = 0 /\ mapCalls = 0
       /\ results = <<>>

\* C7: the construction raises the unrecognised-format error exactly when the
\* input is neither a Netgen/NGSolve mesh nor a DMPlex, and then nothing has
\* run: no warning, no preprocessing, no bridge.
C7_RaisesExactlyOnUnsupported ==
  cpc \notin {"idle", "purify"} =>
    /\ ctorRaised = "ValueError" <=>
         mesh \notin {"ngs.comp.Mesh", "ngm.Mesh", "PETSc.DMPlex"}
    /\ ctorRaised = "ValueError" =>
         /\ warningsEmitted = <<>>
         /\ split2TetsCalls = 0
         /\ transformsApplied = <<>>
         /\ meshMapBuilds = <<>>

\* the preprocessing steps that the construction has run
StepsRun ==
  {k \in FlagKeys :
     \/ k = "purify_to_tets" /\ split2TetsCalls > 0
     \/ k = "quad" /\ "REFINETOBOX" \in Range(transformsApplied)
     \/ k = "transform" /\ "transform" \in Range(transformsApplied)}

\* C8: with a supported serial mesh the construction never fails for a missing
\* flag; it warns once for each of the three keys that is absent, and not for
\* a key that is present; a key that is present with a falsy value (None for
\* transform) skips its step; with {} there are three warnings, no Split2Tets,
\* no transform, and one bridge, built from the unchanged input mesh.
C8_WarningsCountAbsentKeys ==
  IsSerialMesh(mesh) =>
    /\ ctorRaised = "none"
    /\ cpc = "done" =>
         /\ Range(warningsEmitted) = FlagKeys \ DOMAIN netgen_flags
         /\ Len(warningsEmitted) = Cardinality(FlagKeys \ DOMAIN netgen_flags)
         /\ StepsRun = {k \in DOMAIN netgen_flags : Truthy(netgen_flags[k])}
         /\ DOMAIN netgen_flags = {} =>
              /\ Len(warningsEmitted) = 3
              /\ split2TetsCalls = 0
              /\ transformsApplied = <<>>
              /\ meshMapBuilds = <<"mesh">>

\* a finished construction with quad = False and transform = None, which
\* warned once, for purify_to_tets
C8_Witness ==
  /\ cpc = "done"
  /\ DOMAIN netgen_flags = {"quad", "transform"}
  /\ netgen_flags["quad"] = "False"
  /\ netgen_flags["transform"] = "None"
  /\ warningsEmitted = <<"purify_to_tets">>
  /\ meshMapBuilds = <<"mesh">>

\* the sample points of element i, rounded, are pairwise distinct
DistinctRounded(pts) ==
  \A a, b \in DOMAIN pts : a # b => RoundPt(pts[a]) # RoundPt(pts[b])

\* in the field F every boundary node j of the cell of element i holds the
\* curved point of the reference point whose straight-sided point is, after
\* rounding, the coordinate that the interpolation put into node j
MatchedWrite(F, i) ==
  LET n == Len(physPts[i])
      before == Interpolate(dim, orders[callNo])[cell_numbering[i]]
  IN \A j \in 1..n :
       \E r \in 1..n :
         /\ RoundPt(StraightPt(i, r, dim)) = RoundPt(before[j])
         /\ F[cell_numbering[i]][j] = ElementMapping(i, r, dim, curvedOrder)

\* C3: for every curved element whose rounded sample points are pairwise
\* distinct, the index list of the lookup is a permutation of the reference
\* point indices, and after the write every boundary node of the cell holds
\* the curved point of the reference point that matches the coordinate the
\* node held before; the returned field holds the same values.
C3_PointMatching ==
  \A i \in DOMAIN pLists :
    DistinctRounded(physPts[i]) =>
      /\ Range(pLists[i]) = 1..Len(physPts[i])
      /\ MatchedWrite(coords, i)
      /\ Len(results) = callNo => MatchedWrite(results[callNo], i)

\* a returned call that curved an element whose nodes are laid out in another
\* order than the reference points, with interpolated coordinates that differ
\* from the mapped ones below the rounding resolution
C3_Witness ==
  /\ Len(results) = callNo
  /\ eps # 0
  /\ \E i \in DOMAIN pLists :
       /\ DistinctRounded(physPts[i])
       /\ pLists[i] # [j \in 1..Len(physPts[i]) |-> j]
       /\ cell_numbering[i] # i

\* C4: after a call every node of a cell whose serial element is not flagged
\* curved holds the value of the initial interpolation, however many other
\* elements were written; when no element of the netgen mesh is flagged
\* curved the returned field is the interpolated field.
C4_UncurvedUnchanged ==
  callNo >= 1 =>
    LET interp == Interpolate(dim, orders[callNo])
        kept(F) ==
          /\ \A i \in 1..HandleEls(rank) :
               ~elCurved[i] => F[cell_numbering[i]] = interp[cell_numbering[i]]
          /\ (\A i \in 1..HandleEls(rank) : ~elCurved[i]) => F = interp
    IN /\ kept(coords)
       /\ Len(results) = callNo => kept(results[callNo])

\* a returned call on rank 0 that wrote the nodes of a curved element and left
\* another element, which is not curved, alone
C4_Witness ==
  /\ rank = 0
  /\ Len(results) = callNo
  /\ pLists # <<>>
  /\ \E i \in 1..NumEls : ~elCurved[i]
  /\ cell_numbering # [i \in 1..NumEls |-> i]
  /\ results[callNo] # Interpolate(dim, orders[callNo])

\* C9: curveField calls Curve and CalcElementMapping only on rank 0; a rank
\* other than 0 does not change its netgen mesh.
C9_CurveOnlyOnRoot ==
  rank # 0 => curveCalls = 0 /\ mapCalls = 0 /\ curvedOrder = 0

\* C10: in every call of curveField, also after an earlier call, the sample
\* points computed before Curve are the straight-sided points, every lookup
\* succeeds, and a second call with the same order returns the field of the
\* first call.
C10_Repeatable ==
  /\ curRaised # "KeyError"
  /\ kpc = "loop" =>
       \A i \in DOMAIN physPts : \A r \in DOMAIN physPts[i] :
         physPts[i][r] = StraightPt(i, r, dim)
  /\ (Len(results) = 2 /\ orders[1] = orders[2]) => results[2] = results[1]

=============================================================================
